---- MODULE Spec2Model ----
(***************************************************************************)
(* Model of the course recommender of online-school-quality-audit:         *)
(*   analyze_joint_purchases      (src/src/recommender.py, 192-229)        *)
(*   CourseRecommender            (src/src/recommender.py, 10-190)         *)
(* Course ids, users, counts and quality scores are integers; the two      *)
(* places where the code goes through binary64 arithmetic and then takes a *)
(* decision on the result (the score normalisation /100 followed by *100   *)
(* and >= min_quality) are evaluated bit by bit below.                     *)
(***************************************************************************)
EXTENDS Integers, Sequences, FiniteSets, TLC

VARIABLES
    purchase_data,         \* argument of analyze_joint_purchases: rows (user_id, course_id)
    pair_counts,           \* Counter returned by analyze_joint_purchases / passed to __init__
    self_pair_counts,      \* self.pair_counts
    quality_metrics,       \* self.quality_metrics (course_id -> quality_score)
    all_courses,           \* self.all_courses
    threshold,             \* self.threshold
    recommendation_index,  \* self.recommendation_index
    rng,                   \* state of the global numpy random generator
    pc,                    \* position of the caller in the pipeline
    call,                  \* arguments of the call in progress / last call
    result,                \* list returned by the last get_recommendations call
    todo,                  \* courses the loop of get_all_recommendations still has to visit
    recommendations,       \* rows accumulated by get_all_recommendations
    last,                  \* observation of the last loop iteration (one resolver run)
    statistics,            \* dict returned by get_recommendation_statistics
    connection,            \* the psycopg2 connection of load_purchase_data
    df_purchases           \* the table read or returned by load_purchase_data

vars == <<purchase_data, pair_counts, self_pair_counts, quality_metrics, all_courses,
          threshold, recommendation_index, rng, pc, call, result, todo,
          recommendations, last, statistics, connection,
          df_purchases>>

----------------------------------------------------------------------------
(* Bounds of the model *)

MaxLog == 3        \* longest purchase log
MaxUsers == 2      \* number of distinct users
MaxN == 2          \* largest n passed to the recommender
RngStates == 2     \* number of states of the random generator

(* Input domains *)
CourseIds == {101, 102, 103}
UserIds == 1..MaxUsers
QualityValues == {57, 80}
MinQualities == {0, 50, 57, 101}
Thresholds == {0, 1}

None == 0          \* Python's None (never a course id)
NoQuality == -1    \* None in a quality column

----------------------------------------------------------------------------
(* Small helpers on sequences and sets *)

Range(s) == {s[i] : i \in DOMAIN s}

(* F(v) with v evaluated once, before F is applied (an assignment to a local variable) *)
Bind(F(_), v) == CHOOSE r \in {F(x) : x \in {v}} : TRUE

Contains(s, x) == \E i \in DOMAIN s : s[i] = x

(* sorted(S) for a finite set of integers *)
SortedList(S) ==
    [i \in 1..Cardinality(S) |-> CHOOSE x \in S : Cardinality({y \in S : y < x}) = i - 1]

RECURSIVE InsertAsc(_, _)
InsertAsc(s, x) ==
    IF s = <<>> THEN <<x>>
    ELSE IF x < Head(s) THEN <<x>> \o s
    ELSE <<Head(s)>> \o InsertAsc(Tail(s), x)

(* variant: the list is left in the order given *)
sorted_asis(s) == s

RECURSIVE sorted(_)
(* sorted(list) of integers; stable, which is unobservable on integers *)
sorted(s) ==
    IF s = <<>> THEN <<>>
    ELSE Bind(LAMBDA prefix : InsertAsc(prefix, s[Len(s)]), sorted(SubSeq(s, 1, Len(s) - 1)))

----------------------------------------------------------------------------
(* analyze_joint_purchases *)

RECURSIVE CoursesOfUser(_, _)
(* groupby('user_id')['course_id'].apply(list): the user's rows, in row order, duplicates kept *)
CoursesOfUser(df, u) ==
    IF df = <<>> THEN <<>>
    ELSE (IF Head(df).user_id = u THEN <<Head(df).course_id>> ELSE <<>>)
         \o CoursesOfUser(Tail(df), u)

RECURSIVE PairsWithFirst(_, _)
PairsWithFirst(x, s) ==
    IF s = <<>> THEN <<>> ELSE <<<<x, Head(s)>>>> \o PairsWithFirst(x, Tail(s))

RECURSIVE combinations2(_)
(* itertools.combinations(s, 2): positions i < j, in lexicographic order of positions *)
combinations2(s) ==
    IF Len(s) < 2 THEN <<>>
    ELSE PairsWithFirst(Head(s), Tail(s)) \o combinations2(Tail(s))

RECURSIVE AllPairs_gt2(_, _)
(* variant: only users with more than two rows contribute pairs *)
AllPairs_gt2(df, users) ==
    IF users = <<>> THEN <<>>
    ELSE Bind(LAMBDA courses :
                 IF Len(courses) > 2 THEN combinations2(sorted(courses)) ELSE <<>>,
              CoursesOfUser(df, Head(users)))
         \o AllPairs_gt2(df, Tail(users))

RECURSIVE AllPairs(_, _)
(* the list all_pairs, users visited in ascending user_id (groupby sorts its keys) *)
AllPairs(df, users) ==
    IF users = <<>> THEN <<>>
    ELSE Bind(LAMBDA courses :
                 IF Len(courses) >= 2 THEN combinations2(sorted(courses)) ELSE <<>>,
              CoursesOfUser(df, Head(users)))
         \o AllPairs(df, Tail(users))

RECURSIVE CounterAdd(_, _)
(* Counter[key] += 1 on an insertion-ordered mapping *)
CounterAdd(cnt, key) ==
    IF cnt = <<>> THEN <<[pair |-> key, count |-> 1]>>
    ELSE IF Head(cnt).pair = key
         THEN <<[pair |-> key, count |-> Head(cnt).count + 1]>> \o Tail(cnt)
         ELSE <<Head(cnt)>> \o CounterAdd(Tail(cnt), key)

RECURSIVE Counter(_)
Counter(pairs) ==
    IF pairs = <<>> THEN <<>>
    ELSE Bind(LAMBDA cnt : CounterAdd(cnt, pairs[Len(pairs)]),
              Counter(SubSeq(pairs, 1, Len(pairs) - 1)))

analyze_joint_purchases(df) ==
    Bind(Counter, AllPairs(df, SortedList({df[i].user_id : i \in DOMAIN df})))

----------------------------------------------------------------------------
(* binary64 arithmetic, as far as the recommender uses it.                  *)
(* A natural number is a sequence of limbs in base 2^LimbBits, least        *)
(* significant limb first, without leading zero limbs (<<>> is 0).  A float *)
(* is [m, e] with value m * 2^e, where m is 0 or has exactly MantissaBits   *)
(* bits, so that equal floats are equal records.                            *)

MantissaBits == 53
LimbBits == 15
Base == 2^LimbBits

Normal(x) ==
    LET nz == {i \in DOMAIN x : x[i] # 0}
    IN IF nz = {} THEN <<>> ELSE SubSeq(x, 1, CHOOSE i \in nz : \A j \in nz : j <= i)

NatOfInt(n) == Normal(<<n % Base, (n \div Base) % Base, n \div (Base * Base)>>)

SmallBitLength(v) == CHOOSE k \in 0..31 : (k = 0 \/ 2^(k - 1) <= v) /\ (k = 31 \/ v < 2^k)

BitLength(x) == IF x = <<>> THEN 0 ELSE LimbBits * (Len(x) - 1) + SmallBitLength(x[Len(x)])

RECURSIVE MulSmallCarry(_, _, _)
(* x * k + c, for 0 <= k <= Base and 0 <= c < Base *)
MulSmallCarry(x, k, c) ==
    IF x = <<>> THEN (IF c = 0 THEN <<>> ELSE <<c>>)
    ELSE LET t == Head(x) * k + c
         IN <<t % Base>> \o MulSmallCarry(Tail(x), k, t \div Base)

MulSmall(x, k) == Normal(MulSmallCarry(x, k, 0))

RECURSIVE DivSmallFrom(_, _, _)
(* long division of x by d, most significant limb first; r is the running remainder *)
DivSmallFrom(x, d, r) ==
    IF x = <<>> THEN <<>>
    ELSE LET t == r * Base + x[Len(x)]
         IN DivSmallFrom(SubSeq(x, 1, Len(x) - 1), d, t % d) \o <<t \div d>>

RECURSIVE ModSmallFrom(_, _, _)
ModSmallFrom(x, d, r) ==
    IF x = <<>> THEN r
    ELSE ModSmallFrom(SubSeq(x, 1, Len(x) - 1), d, (r * Base + x[Len(x)]) % d)

(* x \div d and x % d for 0 < d <= Base *)
DivSmall(x, d) == Normal(DivSmallFrom(x, d, 0))
ModSmall(x, d) == ModSmallFrom(x, d, 0)

RECURSIVE ShiftLeft(_, _)
ShiftLeft(x, s) ==
    IF x = <<>> \/ s = 0 THEN x
    ELSE IF s >= LimbBits THEN <<0>> \o ShiftLeft(x, s - LimbBits)
    ELSE MulSmall(x, 2^s)

RECURSIVE ShiftRight(_, _)
ShiftRight(x, s) ==
    IF x = <<>> \/ s = 0 THEN x
    ELSE IF s >= LimbBits THEN ShiftRight(Tail(x), s - LimbBits)
    ELSE DivSmall(x, 2^s)

(* bit number i of x, the least significant bit being bit 0 *)
Bit(x, i) ==
    IF i \div LimbBits + 1 > Len(x) THEN 0
    ELSE (x[i \div LimbBits + 1] \div 2^(i % LimbBits)) % 2

(* some bit of x below bit i is set *)
AnyBitBelow(x, i) == \E j \in 0..(i - 1) : Bit(x, j) = 1

RECURSIVE AddCarry(_, _, _)
AddCarry(x, y, c) ==
    IF x = <<>> /\ y = <<>> THEN (IF c = 0 THEN <<>> ELSE <<c>>)
    ELSE LET a == IF x = <<>> THEN 0 ELSE Head(x)
             b == IF y = <<>> THEN 0 ELSE Head(y)
             t == a + b + c
         IN <<t % Base>> \o AddCarry(IF x = <<>> THEN x ELSE Tail(x),
                                     IF y = <<>> THEN y ELSE Tail(y), t \div Base)

Add(x, y) == Normal(AddCarry(x, y, 0))

(* x >= y on naturals *)
NatGE(x, y) ==
    IF Len(x) # Len(y) THEN Len(x) > Len(y)
    ELSE LET diff == {i \in DOMAIN x : x[i] # y[i]}
         IN diff = {} \/ (LET i == CHOOSE k \in diff : \A j \in diff : j <= k IN x[i] > y[i])

Zero == [m |-> <<>>, e |-> 0]

(* round-to-nearest-even of x * 2^e (plus something below its last bit when sticky) *)
RoundNat(x, e, sticky) ==
    LET len == BitLength(x)
        d   == len - MantissaBits
    IN IF x = <<>> THEN Zero
       ELSE IF d <= 0 THEN [m |-> ShiftLeft(x, -d), e |-> e + d]
       ELSE LET keep == ShiftRight(x, d)
                half == Bit(x, d - 1) = 1
                more == sticky \/ AnyBitBelow(x, d - 1)
                up   == half /\ (more \/ Bit(keep, 0) = 1)
                k    == IF up THEN Add(keep, <<1>>) ELSE keep
            IN IF BitLength(k) > MantissaBits
               THEN [m |-> ShiftRight(k, 1), e |-> e + d + 1]
               ELSE [m |-> k, e |-> e + d]

RoundFloat(x, e, sticky) == Bind(LAMBDA v : RoundNat(v, e, sticky), x)

FloatOfInt(n) == RoundFloat(NatOfInt(n), 0, FALSE)

(* q / d for integers q >= 0 and 0 < d <= Base: true division, correctly rounded *)
FloatDivInt(q, d) ==
    LET s == MantissaBits + 2 + LimbBits
    IN Bind(LAMBDA x : RoundFloat(DivSmall(x, d), -s, ModSmall(x, d) # 0),
            ShiftLeft(NatOfInt(q), s))

(* x * k for a float x and an integer 0 <= k <= Base *)
FloatMulBy(x, k) == RoundFloat(MulSmall(x.m, k), x.e, FALSE)

FloatMulInt(x, k) == Bind(LAMBDA v : FloatMulBy(v, k), x)

FloatSum(x, y) ==
    IF x.m = <<>> THEN y
    ELSE IF y.m = <<>> THEN x
    ELSE LET e == IF x.e < y.e THEN x.e ELSE y.e
         IN RoundFloat(Add(ShiftLeft(x.m, x.e - e), ShiftLeft(y.m, y.e - e)), e, FALSE)

FloatAdd(x, y) == Bind(LAMBDA v : Bind(LAMBDA w : FloatSum(v, w), y), x)

(* x / 2 (exact: no underflow in the range used) *)
FloatHalf(x) == Bind(LAMBDA v : IF v.m = <<>> THEN v ELSE [m |-> v.m, e |-> v.e - 1], x)

FloatCompare(x, y) ==
    IF y.m = <<>> THEN TRUE
    ELSE IF x.m = <<>> THEN FALSE
    ELSE x.e > y.e \/ (x.e = y.e /\ NatGE(x.m, y.m))

(* x >= y on floats *)
FloatGE(x, y) == Bind(LAMBDA v : Bind(LAMBDA w : FloatCompare(v, w), y), x)

----------------------------------------------------------------------------
(* CourseRecommender *)

DefaultScore == FloatDivInt(1, 2)      \* the literal 0.5

(* quality scores lie on the 0..100 scale of the composite quality index *)
QualityRange == 0..100

(* quality_score / 100 for every quality score, computed once *)
NormalizedScore == [q \in QualityRange |-> FloatDivInt(q, 100)]

(* _get_course_score: quality_score / 100, or 0.5 without a quality record *)
get_course_score(qm, course_id) ==
    IF course_id \in DOMAIN qm THEN NormalizedScore[qm[course_id]] ELSE DefaultScore

(* _get_course_score(...) * 100 for every quality score, computed once *)
RescaledScore == [q \in QualityRange |-> FloatMulInt(NormalizedScore[q], 100)]

(* 0.5 * 100, the rescaled default *)
RescaledDefault == FloatMulInt(DefaultScore, 100)

(* candidate_score = self._get_course_score(candidate) * 100 *)
candidate_score(qm, course_id) ==
    IF course_id \in DOMAIN qm THEN RescaledScore[qm[course_id]] ELSE RescaledDefault

(* min_quality as the float it is compared with *)
MinQualityFloat == [q \in MinQualities |-> FloatOfInt(q)]

(* variant: the filter keeps a pair whose count equals the threshold *)
FilterPairCounts_ge(cnt, thr) == SelectSeq(cnt, LAMBDA entry : entry.count >= thr)

(* {pair: count for pair, count in pair_counts.items() if count > threshold} *)
FilterPairCounts(cnt, thr) == SelectSeq(cnt, LAMBDA entry : entry.count > thr)

(* variant: the sum of the two scores is not halved *)
EdgeWeight_sum(qm, entry) ==
    FloatMulInt(FloatAdd(get_course_score(qm, entry.pair[1]),
                         get_course_score(qm, entry.pair[2])),
                entry.count)

(* weight = count * ((score1 + score2) / 2) *)
EdgeWeight(qm, entry) ==
    FloatMulInt(FloatHalf(FloatAdd(get_course_score(qm, entry.pair[1]),
                                   get_course_score(qm, entry.pair[2]))),
                entry.count)

(* if course not in index: index[course] = []; index[course].append(edge) *)
IndexAppend(index, course, edge) ==
    [c \in DOMAIN index \cup {course} |->
        IF c = course
        THEN (IF c \in DOMAIN index THEN Append(index[c], edge) ELSE <<edge>>)
        ELSE index[c]]

RECURSIVE InsertEdges_oneway(_, _, _)
(* variant: only the edge course1 -> course2 is inserted *)
InsertEdges_oneway(cnt, qm, index) ==
    IF cnt = <<>> THEN index
    ELSE LET entry == Head(cnt)
         IN Bind(LAMBDA weight :
                Bind(LAMBDA index1 : InsertEdges_oneway(Tail(cnt), qm, index1),
                     IndexAppend(index, entry.pair[1], <<entry.pair[2], weight>>)),
                EdgeWeight(qm, entry))

RECURSIVE InsertEdges(_, _, _)
(* the first loop of _build_recommendation_index, over the items of self.pair_counts *)
InsertEdges(cnt, qm, index) ==
    IF cnt = <<>> THEN index
    ELSE LET entry == Head(cnt)
         IN Bind(LAMBDA weight :
                Bind(LAMBDA index1 :
                    Bind(LAMBDA index2 : InsertEdges(Tail(cnt), qm, index2),
                         IndexAppend(index1, entry.pair[2], <<entry.pair[1], weight>>)),
                    IndexAppend(index, entry.pair[1], <<entry.pair[2], weight>>)),
                EdgeWeight(qm, entry))

RECURSIVE InsertByWeight_before(_, _)
(* variant: the edge goes before the edges of equal weight *)
InsertByWeight_before(edges, edge) ==
    IF edges = <<>> THEN <<edge>>
    ELSE IF FloatGE(edge[2], Head(edges)[2])
         THEN <<edge>> \o edges
         ELSE <<Head(edges)>> \o InsertByWeight_before(Tail(edges), edge)

RECURSIVE InsertByWeight(_, _)
(* put edge into a list sorted by descending weight, after the edges of equal weight *)
InsertByWeight(edges, edge) ==
    IF edges = <<>> THEN <<edge>>
    ELSE IF FloatGE(Head(edges)[2], edge[2])
         THEN <<Head(edges)>> \o InsertByWeight(Tail(edges), edge)
         ELSE <<edge>> \o edges

RECURSIVE SortByWeight(_)
(* list.sort(key=lambda x: x[1], reverse=True): descending and stable *)
SortByWeight(edges) ==
    IF edges = <<>> THEN <<>>
    ELSE Bind(LAMBDA prefix : InsertByWeight(prefix, edges[Len(edges)]),
              SortByWeight(SubSeq(edges, 1, Len(edges) - 1)))

build_recommendation_index(cnt, qm) ==
    Bind(LAMBDA index : [c \in DOMAIN index |-> SortByWeight(index[c])],
         InsertEdges(cnt, qm, <<>>))

(* candidate_score >= min_quality, candidate_score = _get_course_score(candidate) * 100 *)
CandidateAccepted(qm, candidate, min_quality) ==
    FloatGE(candidate_score(qm, candidate), MinQualityFloat[min_quality])

RECURSIVE WalkEdges(_, _, _, _, _)
(* the loop of get_recommendations: append when accepted, then break when len >= n *)
WalkEdges(edges, qm, n, min_quality, recs) ==
    IF edges = <<>> THEN recs
    ELSE LET candidate == Head(edges)[1]
         IN Bind(LAMBDA recs1 :
                    IF Len(recs1) >= n THEN recs1
                    ELSE WalkEdges(Tail(edges), qm, n, min_quality, recs1),
                 IF CandidateAccepted(qm, candidate, min_quality)
                 THEN Append(recs, candidate) ELSE recs)

get_recommendations(index, qm, course_id, n, min_quality) ==
    IF course_id \notin DOMAIN index THEN <<>>
    ELSE WalkEdges(index[course_id], qm, n, min_quality, <<>>)

(* variant: the pool is not filtered by min_quality *)
HighQualityCourses_any(qm, course_id, min_quality) ==
    SortedList({c \in DOMAIN qm : c # course_id})

(* rows of the quality table with quality_score >= min_quality and index != course_id,
   as a list in the order of the table (ascending course_id in this model) *)
HighQualityCourses(qm, course_id, min_quality) ==
    SortedList({c \in DOMAIN qm : qm[c] >= min_quality /\ c # course_id})

(* [c for c in high_quality_courses if c not in recs] *)
Available(qm, course_id, min_quality, recs) ==
    SelectSeq(HighQualityCourses(qm, course_id, min_quality), LAMBDA c : ~Contains(recs, c))

(* np.random.choice(available): the position chosen in a list of length len *)
RandomChoice(g, len) == (g % len) + 1

(* the generator state after one draw *)
RandomAdvance(g) == (g + 1) % RngStates

(* variant: the drawn course stays in the list *)
RemoveAt_keep(s, i) == s

(* available.remove(new_rec), new_rec being at position i *)
RemoveAt(s, i) == SubSeq(s, 1, i - 1) \o SubSeq(s, i + 1, Len(s))

RECURSIVE Backfill(_, _, _, _, _)
(* while len(recs) < n and available: draw, append, remove *)
Backfill(recs, available, n, g, drawn) ==
    IF Len(recs) < n /\ available # <<>>
    THEN LET i == RandomChoice(g, Len(available))
         IN Backfill(Append(recs, available[i]), RemoveAt(available, i), n,
                     RandomAdvance(g), Append(drawn, available[i]))
    ELSE [recs |-> recs, available |-> available, rng |-> g, drawn |-> drawn]

(* variant: no sentinel is appended *)
PadNone_skip(recs, n) == recs

RECURSIVE PadNone(_, _)
(* while len(recs) < n: recs.append(None) *)
PadNone(recs, n) == IF Len(recs) < n THEN PadNone(Append(recs, None), n) ELSE recs

(* one course of get_all_recommendations, up to the padding *)
ResolveFrom(qm, course_id, n, min_quality, g, primary) ==
    LET short == Len(primary) < n
    IN Bind(LAMBDA pool :
          Bind(LAMBDA filled :
                 [course_id |-> course_id, n |-> n, min_quality |-> min_quality, seed |-> g,
                  primary |-> primary, backfilled |-> short, pool |-> pool,
                  drawn |-> filled.drawn, available |-> filled.available,
                  accepted |-> filled.recs, recs |-> PadNone(filled.recs, n),
                  rng |-> filled.rng],
               IF short THEN Backfill(primary, pool, n, g, <<>>)
               ELSE [recs |-> primary, available |-> <<>>, rng |-> g, drawn |-> <<>>]),
          IF short THEN Available(qm, course_id, min_quality, primary) ELSE <<>>)

Resolve(index, qm, course_id, n, min_quality, g) ==
    Bind(LAMBDA primary : ResolveFrom(qm, course_id, n, min_quality, g, primary),
         get_recommendations(index, qm, course_id, n, min_quality))

(* rec_quality: the quality_score of a recommended course that has a quality record *)
RecQuality(qm, rec) == IF rec # None /\ rec \in DOMAIN qm THEN qm[rec] ELSE NoQuality

(* variant: has_recommendations looks at the second slot *)
Row_second(qm, course_id, recs) ==
    [course_id |-> course_id,
     course_quality |-> candidate_score(qm, course_id),
     recomm_one |-> recs[1],
     recomm_one_quality |-> RecQuality(qm, recs[1]),
     recomm_two |-> recs[2],
     recomm_two_quality |-> RecQuality(qm, recs[2]),
     has_recommendations |-> recs[2] # None]

(* the row appended for one course; needs recs[0] and recs[1] *)
Row(qm, course_id, recs) ==
    [course_id |-> course_id,
     course_quality |-> candidate_score(qm, course_id),
     recomm_one |-> recs[1],
     recomm_one_quality |-> RecQuality(qm, recs[1]),
     recomm_two |-> recs[2],
     recomm_two_quality |-> RecQuality(qm, recs[2]),
     has_recommendations |-> recs[1] # None]

(* the mean of a column without a value *)
NaN == [m |-> <<>>, e |-> 1]

RECURSIVE ColumnValues(_, _)
(* the non-null values of a quality column, in row order *)
ColumnValues(frame, col) ==
    IF frame = <<>> THEN <<>>
    ELSE (IF Head(frame)[col] = NoQuality THEN <<>> ELSE <<Head(frame)[col]>>)
         \o ColumnValues(Tail(frame), col)

RECURSIVE SumSeq(_)
SumSeq(s) == IF s = <<>> THEN 0 ELSE Head(s) + SumSeq(Tail(s))

(* Series.mean(): the sum of the non-null values over their number, NaN without values *)
ColumnMean(frame, col) ==
    Bind(LAMBDA values :
            IF values = <<>> THEN NaN ELSE FloatDivInt(SumSeq(values), Len(values)),
         ColumnValues(frame, col))

(* the mean of the two column means, NaN ones skipped *)
MeanOfMeans(m1, m2) ==
    IF m1 = NaN THEN m2
    ELSE IF m2 = NaN THEN m1
    ELSE FloatHalf(FloatAdd(m1, m2))

(* the dict returned by get_recommendation_statistics *)
get_recommendation_statistics(frame) ==
    [total_courses |-> Len(frame),
     courses_with_recs |-> Len(SelectSeq(frame, LAMBDA row : row.has_recommendations)),
     avg_quality |-> Bind(LAMBDA m1 : Bind(LAMBDA m2 : MeanOfMeans(m1, m2),
                                           ColumnMean(frame, "recomm_two_quality")),
                          ColumnMean(frame, "recomm_one_quality"))]

----------------------------------------------------------------------------
(* Inputs *)

Rows == [user_id : UserIds, course_id : CourseIds]

PurchaseLogs == UNION {[1..k -> Rows] : k \in 0..MaxLog}

QualityTables == UNION {[S -> QualityValues] : S \in SUBSET CourseIds}

(* the courses of a pair counter: what main.py passes as all_courses when every
   user of the log bought at least two courses *)
PairCourses(cnt) == UNION {{cnt[i].pair[1], cnt[i].pair[2]} : i \in DOMAIN cnt}

NoCall == [fn |-> "none", course_id |-> None, n |-> 0, min_quality |-> 0]
NoRun == [course_id |-> None]
NoStatistics == [total_courses |-> 0]

(* the columns selected by the query of load_purchase_data *)
PurchaseColumns == <<"user_id", "course_id", "purchased_at", "updated_at">>

(* a table with these columns; the two timestamps of a row are not modelled, nothing
   downstream reads them *)
Table(rows) == [columns |-> PurchaseColumns, rows |-> rows]

(* pd.DataFrame(columns=[...]) *)
EmptyTable == Table(<<>>)

(* no table read or returned yet *)
NoTable == [columns |-> <<>>, rows |-> <<>>]

(* what the query can return: rows of users with more than one distinct course
   (HAVING COUNT(DISTINCT course_id) > 1), ordered by user_id *)
QueryResults ==
    {rows \in PurchaseLogs :
        /\ \A i \in DOMAIN rows :
              Cardinality({rows[j].course_id :
                              j \in {k \in DOMAIN rows : rows[k].user_id = rows[i].user_id}}) > 1
        /\ \A i, j \in DOMAIN rows : i < j => rows[i].user_id <= rows[j].user_id}

Blank ==
    /\ self_pair_counts = <<>>
    /\ quality_metrics = <<>>
    /\ all_courses = {}
    /\ threshold = 0
    /\ recommendation_index = <<>>
    /\ call = NoCall
    /\ result = <<>>
    /\ todo = <<>>
    /\ recommendations = <<>>
    /\ last = NoRun
    /\ statistics = NoStatistics
    /\ connection = "none"
    /\ df_purchases = NoTable

(* the aggregator alone: any purchase log, before analyze_joint_purchases *)
InitAgg ==
    /\ purchase_data \in PurchaseLogs
    /\ pair_counts = <<>>
    /\ rng = 0
    /\ pc = "loaded"
    /\ Blank

(* the recommender: a pair counter produced from some purchase log, before __init__ *)
Init ==
    /\ purchase_data = <<>>
    /\ pair_counts \in {analyze_joint_purchases(df) : df \in PurchaseLogs}
    /\ rng \in 0..(RngStates - 1)
    /\ pc = "analyzed"
    /\ Blank

----------------------------------------------------------------------------
(* Actions *)

(* the call fn has returned and its result has not been discarded *)
Returned(fn) == pc = "returned" /\ call.fn = fn

AnalyzeJointPurchases ==
    /\ pc = "loaded"
    /\ pair_counts' = analyze_joint_purchases(purchase_data)
    /\ pc' = "analyzed"
    /\ UNCHANGED <<connection, df_purchases, statistics, purchase_data, self_pair_counts, quality_metrics, all_courses, threshold,
                   recommendation_index, rng, call, result, todo, recommendations, last>>

(* CourseRecommender.__init__ *)
Construct(qm, courses, thr) ==
    /\ pc = "analyzed"
    /\ self_pair_counts' = FilterPairCounts(pair_counts, thr)
    /\ quality_metrics' = qm
    /\ all_courses' = courses
    /\ threshold' = thr
    /\ recommendation_index' = build_recommendation_index(self_pair_counts', qm)
    /\ pc' = "ready"
    /\ UNCHANGED <<connection, df_purchases, statistics, purchase_data, pair_counts, rng, call, result, todo, recommendations,
                   last>>

ConstructAny ==
    \E qm \in QualityTables, thr \in Thresholds, courses \in {CourseIds, PairCourses(pair_counts)} :
        Construct(qm, courses, thr)

(* np.random.seed(s) by the caller *)
Seed ==
    /\ pc = "ready"
    /\ \E s \in 0..(RngStates - 1) : rng' = s
    /\ UNCHANGED <<connection, df_purchases, statistics, purchase_data, pair_counts, self_pair_counts, quality_metrics, all_courses,
                   threshold, recommendation_index, pc, call, result, todo, recommendations,
                   last>>

(* a direct call of get_recommendations; the code accepts any integer n, negative ones
   included: no argument is validated *)
GetRecommendations ==
    /\ pc = "ready"
    /\ \E course_id \in CourseIds, n \in (-1)..MaxN, min_quality \in MinQualities :
          /\ call' = [fn |-> "get_recommendations", course_id |-> course_id, n |-> n,
                      min_quality |-> min_quality]
          /\ result' = get_recommendations(recommendation_index, quality_metrics,
                                           course_id, n, min_quality)
    /\ pc' = "returned"
    /\ UNCHANGED <<connection, df_purchases, statistics, purchase_data, pair_counts, self_pair_counts, quality_metrics, all_courses,
                   threshold, recommendation_index, rng, todo, recommendations, last>>

(* get_all_recommendations is entered: recommendations = [], the loop is over sorted(all_courses) *)
GetAllBegin ==
    /\ pc = "ready"
    /\ \E n \in 0..MaxN, min_quality \in MinQualities :
          call' = [fn |-> "get_all_recommendations", course_id |-> None, n |-> n,
                   min_quality |-> min_quality]
    /\ todo' = SortedList(all_courses)
    /\ recommendations' = <<>>
    /\ last' = NoRun
    /\ pc' = "loop"
    /\ UNCHANGED <<connection, df_purchases, statistics, purchase_data, pair_counts, self_pair_counts, quality_metrics, all_courses,
                   threshold, recommendation_index, rng, result>>

(* variant: get_recommendations hands out the edge list of the index itself, so the
   backfilled courses are appended to that list *)
GetAllIterate_alias ==
    /\ pc = "loop"
    /\ todo # <<>>
    /\ \E run \in {Resolve(recommendation_index, quality_metrics, Head(todo), call.n,
                           call.min_quality, rng)} :
          /\ last' = run
          /\ rng' = run.rng
          /\ recommendation_index' =
                [c \in DOMAIN recommendation_index |->
                    IF c = Head(todo)
                    THEN recommendation_index[c]
                         \o [i \in DOMAIN run.drawn |-> <<run.drawn[i], Zero>>]
                    ELSE recommendation_index[c]]
          /\ IF Len(run.recs) < 2
             THEN /\ pc' = "raised"
                  /\ UNCHANGED <<todo, recommendations>>
             ELSE /\ pc' = "loop"
                  /\ todo' = Tail(todo)
                  /\ recommendations' = Append(recommendations,
                                               Row(quality_metrics, Head(todo), run.recs))
    /\ UNCHANGED <<connection, df_purchases, statistics, purchase_data, pair_counts, self_pair_counts, quality_metrics,
                   all_courses, threshold, call, result>>

(* one iteration of the loop: resolve the course, pad, build its row; recs[0] or recs[1]
   raises IndexError when the padded list has fewer than two slots *)
GetAllIterate ==
    /\ pc = "loop"
    /\ todo # <<>>
    /\ \E run \in {Resolve(recommendation_index, quality_metrics, Head(todo), call.n,
                           call.min_quality, rng)} :
          /\ last' = run
          /\ rng' = run.rng
          /\ IF Len(run.recs) < 2
             THEN /\ pc' = "raised"
                  /\ UNCHANGED <<todo, recommendations>>
             ELSE /\ pc' = "loop"
                  /\ todo' = Tail(todo)
                  /\ recommendations' = Append(recommendations,
                                               Row(quality_metrics, Head(todo), run.recs))
    /\ UNCHANGED <<connection, df_purchases, statistics, purchase_data, pair_counts, self_pair_counts, quality_metrics, all_courses,
                   threshold, recommendation_index, call, result>>

(* return pd.DataFrame(recommendations) *)
GetAllReturn ==
    /\ pc = "loop"
    /\ todo = <<>>
    /\ pc' = "returned"
    /\ UNCHANGED <<connection, df_purchases, statistics, purchase_data, pair_counts, self_pair_counts, quality_metrics, all_courses,
                   threshold, recommendation_index, rng, call, result, todo, recommendations,
                   last>>

(* get_recommendation_statistics on the frame just returned; an empty frame has no
   columns, so recommendations_df['has_recommendations'] raises KeyError *)
GetRecommendationStatistics ==
    /\ Returned("get_all_recommendations")
    /\ IF recommendations = <<>>
       THEN pc' = "raised" /\ UNCHANGED statistics
       ELSE /\ pc' = "reported"
            /\ statistics' = get_recommendation_statistics(recommendations)
    /\ UNCHANGED <<connection, df_purchases, purchase_data, pair_counts, self_pair_counts, quality_metrics, all_courses,
                   threshold, recommendation_index, rng, call, result, todo, recommendations,
                   last>>

(* the caller is done with what the call returned or raised, and may call again *)
Discard ==
    /\ pc \in {"returned", "raised", "reported"}
    /\ pc' = "ready"
    /\ call' = NoCall
    /\ result' = <<>>
    /\ todo' = <<>>
    /\ recommendations' = <<>>
    /\ last' = NoRun
    /\ statistics' = NoStatistics
    /\ UNCHANGED <<connection, df_purchases, purchase_data, pair_counts, self_pair_counts, quality_metrics, all_courses,
                   threshold, recommendation_index, rng>>

Calls ==
    \/ Seed \/ GetRecommendations \/ GetAllBegin \/ GetAllIterate \/ GetAllReturn
    \/ GetRecommendationStatistics \/ Discard

Next == ConstructAny \/ Calls

Spec == Init /\ [][Next]_vars

NextAgg == AnalyzeJointPurchases

SpecAgg == InitAgg /\ [][NextAgg]_vars

----------------------------------------------------------------------------
(* load_purchase_data (src/src/data_loader.py) *)

InitLoad ==
    /\ purchase_data = <<>>
    /\ pair_counts = <<>>
    /\ rng = 0
    /\ pc = "start"
    /\ Blank

(* conn = connect_to_db(): a connection, or None when psycopg2.connect raised; None makes
   load_purchase_data raise ConnectionError inside its try *)
ConnectToDb ==
    /\ pc = "start"
    /\ \/ connection' = "open" /\ pc' = "connected"
       \/ connection' = "none" /\ pc' = "failed"
    /\ UNCHANGED <<df_purchases, statistics, purchase_data, pair_counts, self_pair_counts,
                   quality_metrics, all_courses, threshold, recommendation_index, rng, call,
                   result, todo, recommendations, last>>

(* df = pd.read_sql_query(query, conn): the rows, or an exception *)
ReadSqlQuery ==
    /\ pc = "connected"
    /\ \/ \E rows \in QueryResults : df_purchases' = Table(rows) /\ pc' = "fetched"
       \/ df_purchases' = df_purchases /\ pc' = "failed"
    /\ UNCHANGED <<connection, statistics, purchase_data, pair_counts, self_pair_counts,
                   quality_metrics, all_courses, threshold, recommendation_index, rng, call,
                   result, todo, recommendations, last>>

(* conn.close() *)
CloseConnection ==
    /\ pc = "fetched"
    /\ connection' = "closed"
    /\ pc' = "closed"
    /\ UNCHANGED <<df_purchases, statistics, purchase_data, pair_counts, self_pair_counts,
                   quality_metrics, all_courses, threshold, recommendation_index, rng, call,
                   result, todo, recommendations, last>>

(* return df, which the caller passes on as purchase_data *)
ReturnTable ==
    /\ pc = "closed"
    /\ purchase_data' = df_purchases.rows
    /\ pc' = "loaded"
    /\ UNCHANGED <<connection, df_purchases, statistics, pair_counts, self_pair_counts,
                   quality_metrics, all_courses, threshold, recommendation_index, rng, call,
                   result, todo, recommendations, last>>

(* except Exception: return pd.DataFrame(columns=[...]); the handler does not touch conn *)
HandleException ==
    /\ pc = "failed"
    /\ df_purchases' = EmptyTable
    /\ purchase_data' = <<>>
    /\ pc' = "loaded"
    /\ UNCHANGED <<connection, statistics, pair_counts, self_pair_counts,
                   quality_metrics, all_courses, threshold, recommendation_index, rng, call,
                   result, todo, recommendations, last>>

NextLoad ==
    ConnectToDb \/ ReadSqlQuery \/ CloseConnection \/ ReturnTable \/ HandleException

SpecLoad == InitLoad /\ [][NextLoad]_vars

----------------------------------------------------------------------------
(* The scenario of the specification: three users, three courses *)

ScenarioPurchases ==
    << [user_id |-> 1, course_id |-> 101], [user_id |-> 1, course_id |-> 102],
       [user_id |-> 2, course_id |-> 101], [user_id |-> 2, course_id |-> 103],
       [user_id |-> 3, course_id |-> 102], [user_id |-> 3, course_id |-> 103] >>

ScenarioQuality == (101 :> 80) @@ (102 :> 60) @@ (103 :> 40)

InitScenario ==
    /\ purchase_data = ScenarioPurchases
    /\ pair_counts = <<>>
    /\ rng \in 0..(RngStates - 1)
    /\ pc = "loaded"
    /\ Blank

ConstructScenario ==
    \E courses \in {CourseIds, PairCourses(pair_counts)} : Construct(ScenarioQuality, courses, 0)

NextScenario == AnalyzeJointPurchases \/ ConstructScenario \/ Calls

SpecScenario == InitScenario /\ [][NextScenario]_vars

----------------------------------------------------------------------------
(* Properties *)

Constructed == pc \in {"ready", "loop", "returned", "raised", "reported"}

(* the users of the log who bought both courses *)
BuyersOfBoth(df, a, b) ==
    {u \in {df[i].user_id : i \in DOMAIN df} :
        /\ \E i \in DOMAIN df : df[i].user_id = u /\ df[i].course_id = a
        /\ \E i \in DOMAIN df : df[i].user_id = u /\ df[i].course_id = b}

(* quality.get(c, 50) *)
QualityOrDefault(qm, c) == IF c \in DOMAIN qm THEN qm[c] ELSE 50

Take(s, k) == SubSeq(s, 1, IF k < Len(s) THEN k ELSE Len(s))

EdgeTo(a, b) ==
    /\ a \in DOMAIN recommendation_index
    /\ \E i \in DOMAIN recommendation_index[a] : recommendation_index[a][i][1] = b

Candidates(course_id) ==
    IF course_id \in DOMAIN recommendation_index
    THEN [i \in DOMAIN recommendation_index[course_id] |-> recommendation_index[course_id][i][1]]
    ELSE <<>>

(* the courses that may still be drawn once run has ended *)
PoolLeft(run) ==
    {c \in DOMAIN quality_metrics :
        /\ quality_metrics[c] >= run.min_quality
        /\ c # run.course_id
        /\ ~Contains(run.accepted, c)}

Filled(recs) == {i \in DOMAIN recs : recs[i] # None}

(* C1: every key of the pair counter returned by analyze_joint_purchases has two distinct
   course ids, and its count is the number of distinct users who bought both courses.
   The code keeps a user's repeated rows, so this fails. *)
C1_DistinctPairsCountUsers ==
    pc = "analyzed" =>
        \A i \in DOMAIN pair_counts :
            /\ pair_counts[i].pair[1] # pair_counts[i].pair[2]
            /\ pair_counts[i].count =
                 Cardinality(BuyersOfBoth(purchase_data, pair_counts[i].pair[1],
                                          pair_counts[i].pair[2]))

(* C2: a pair whose count is at most the threshold contributes no edge to the index, and a
   pair whose count is threshold + 1 contributes its edges in both directions. *)
C2_ThresholdExcluded ==
    Constructed =>
        \A i \in DOMAIN pair_counts :
            LET a == pair_counts[i].pair[1]
                b == pair_counts[i].pair[2]
            IN /\ pair_counts[i].count <= threshold => ~EdgeTo(a, b) /\ ~EdgeTo(b, a)
               /\ pair_counts[i].count = threshold + 1 => EdgeTo(a, b) /\ EdgeTo(b, a)

C2_Witness ==
    /\ pc = "ready"
    /\ threshold = 1
    /\ \E i, j \in DOMAIN pair_counts :
          pair_counts[i].count = threshold /\ pair_counts[j].count = threshold + 1

(* C3: for n >= 1, get_recommendations returns the first min(n, k) candidates, in index
   order, among those whose quality (50 without a record) is >= min_quality.  The code
   compares (quality / 100) * 100 in binary64, which is below the quality for some
   values, so this fails. *)
C3_FirstQualifyingCandidates ==
    (Returned("get_recommendations") /\ call.n >= 1) =>
        result = Take(SelectSeq(Candidates(call.course_id),
                                LAMBDA c : QualityOrDefault(quality_metrics, c) >= call.min_quality),
                      call.n)

(* C4: the list returned by get_recommendations has at most n course ids, for every
   n >= 0.  The code tests the length after appending, so this fails for n = 0. *)
C4_AtMostN ==
    (Returned("get_recommendations") /\ call.n >= 0) => Len(result) <= call.n

(* C5: backfill runs only when the primary phase accepted fewer than n; every course it
   appends has a quality record >= min_quality, is not the source course and was not
   accepted before (so none is appended twice); it stops as soon as n are accepted or no
   course of the pool is left. *)
C5_BackfillFromPool ==
    last # NoRun =>
        /\ last.drawn # <<>> => Len(last.primary) < last.n
        /\ last.accepted = last.primary \o last.drawn
        /\ \A i \in DOMAIN last.drawn :
              LET c == last.drawn[i]
              IN /\ c \in DOMAIN quality_metrics
                 /\ quality_metrics[c] >= last.min_quality
                 /\ c # last.course_id
                 /\ ~Contains(last.primary, c)
                 /\ \A j \in 1..(i - 1) : last.drawn[j] # c
        /\ Len(last.primary) < last.n =>
              /\ Len(last.accepted) <= last.n
              /\ Len(last.accepted) = last.n \/ PoolLeft(last) = {}

C5_Witness ==
    /\ last # NoRun
    /\ last.n = 2
    /\ Len(last.primary) = 1
    /\ Len(last.drawn) = 1

(* C6: after the primary and backfill phases the result has exactly n slots, a slot is a
   sentinel only if the pool was exhausted, and sentinels come after the course ids.
   For n = 0 the primary phase can hand over one course (see C4), so this fails. *)
C6_ExactlyNSlots ==
    last # NoRun =>
        /\ Len(last.recs) = last.n
        /\ \A i \in DOMAIN last.recs :
              last.recs[i] = None =>
                 /\ PoolLeft(last) = {}
                 /\ \A j \in DOMAIN last.recs : j > i => last.recs[j] = None

(* C7: with min_quality = 0 and a universe of at least n + 1 courses, the resolver fills
   (at least) n slots with course ids, also when courses lack a quality record.  The
   code draws the pool from the quality table only, so this fails. *)
C7_FullAtMinQualityZero ==
    (last # NoRun /\ last.min_quality = 0 /\ last.course_id \in all_courses
        /\ Cardinality(all_courses) >= last.n + 1) =>
        Cardinality(Filled(last.recs)) >= last.n

(* C9: the scenario's purchases give the pair counts {(101,102):1, (101,103):1,
   (102,103):1}, and with threshold 0 and quality {101:80, 102:60, 103:40}
   get_recommendations(101, n=1, min_quality=50) returns [102]. *)
C9_Scenario ==
    /\ pc # "loaded" =>
          /\ Len(pair_counts) = 3
          /\ Range(pair_counts) = { [pair |-> <<101, 102>>, count |-> 1],
                                    [pair |-> <<101, 103>>, count |-> 1],
                                    [pair |-> <<102, 103>>, count |-> 1] }
    /\ (Returned("get_recommendations") /\ call.course_id = 101 /\ call.n = 1
            /\ call.min_quality = 50) => result = <<102>>

C9_Witness ==
    /\ Returned("get_recommendations")
    /\ call.course_id = 101 /\ call.n = 1 /\ call.min_quality = 50
    /\ threshold = 0
    /\ quality_metrics = ScenarioQuality
    /\ result = <<102>>

(* C10: for a course without an entry in the index and min_quality = 101, the backfill
   pool is empty and the result is n sentinels, for every n. *)
C10_AllSentinels ==
    (last # NoRun /\ last.course_id \notin DOMAIN recommendation_index
        /\ last.min_quality = 101) =>
        /\ last.pool = <<>>
        /\ last.drawn = <<>>
        /\ Len(last.recs) = last.n
        /\ \A i \in DOMAIN last.recs : last.recs[i] = None

C10_Witness ==
    /\ last # NoRun
    /\ last.course_id \notin DOMAIN recommendation_index
    /\ last.min_quality = 101
    /\ quality_metrics # <<>>
    /\ last.n = 2
    /\ last.recs = <<None, None>>

(* the course_id column of the returned frame *)
CourseColumn(frame) == [i \in DOMAIN frame |-> frame[i].course_id]

(* C11: for every course set, n >= 1 and min_quality, get_all_recommendations completes
   and returns one record per course, in ascending course_id.  The row reads recs[0] and
   recs[1], so with n = 1 the call raises IndexError on the first course. *)
C11_OneRecordPerCourseSorted ==
    (call.fn = "get_all_recommendations" /\ call.n >= 1 /\ pc \in {"returned", "raised"}) =>
        /\ pc = "returned"
        /\ CourseColumn(recommendations) = SortedList(all_courses)

(* C12: in every record, a slot's quality field is unset exactly when the slot is a
   sentinel, and a slot holding a course id carries that course's quality score, 50 when
   the course has no quality record.  The code leaves the field unset for a course
   without a record. *)
C12_SlotQualityIffFilled ==
    \A i \in DOMAIN recommendations :
        LET row == recommendations[i]
        IN /\ row.recomm_one_quality =
                 (IF row.recomm_one = None THEN NoQuality
                  ELSE QualityOrDefault(quality_metrics, row.recomm_one))
           /\ row.recomm_two_quality =
                 (IF row.recomm_two = None THEN NoQuality
                  ELSE QualityOrDefault(quality_metrics, row.recomm_two))

(* C13: a call with an invalid argument, such as a negative n, is rejected with an error
   and produces no list.  The code validates nothing: get_recommendations with n = -1
   returns normally, with the first accepted candidate in the list. *)
C13_InvalidArgumentRejected ==
    (call.fn = "get_recommendations" /\ call.n < 0 /\ pc \in {"returned", "raised"}) =>
        /\ pc = "raised"
        /\ result = <<>>

(* the first k elements are course ids and the others are sentinels *)
FilledThenNone(recs, k) ==
    \A i \in DOMAIN recs : IF i <= k THEN recs[i] # None ELSE recs[i] = None

Min(a, b) == IF a < b THEN a ELSE b

(* C14: a course with no index entry and no quality record goes straight to backfill:
   the primary phase gives nothing, its own quality counts as 50, it is not in its own
   pool, and it gets min(n, size of the pool) backfilled courses followed by sentinels,
   n slots in all. *)
C14_UnknownCourseBackfilled ==
    (last # NoRun /\ last.course_id \notin DOMAIN recommendation_index
        /\ last.course_id \notin DOMAIN quality_metrics) =>
        /\ last.primary = <<>>
        /\ ~Contains(last.pool, last.course_id)
        /\ last.n >= 1 =>
              /\ last.backfilled
              /\ Range(last.pool) = {c \in DOMAIN quality_metrics :
                                        quality_metrics[c] >= last.min_quality}
        /\ Len(last.drawn) = Min(last.n, Len(last.pool))
        /\ Range(last.drawn) \subseteq Range(last.pool)
        /\ Len(last.recs) = last.n
        /\ last.recs = last.drawn \o [i \in 1..(last.n - Len(last.drawn)) |-> None]
        /\ FilledThenNone(last.recs, Len(last.drawn))
        /\ \A i \in DOMAIN recommendations :
              recommendations[i].course_id = last.course_id =>
                 recommendations[i].course_quality = FloatOfInt(50)

C14_Witness ==
    /\ pc = "loop"
    /\ last # NoRun
    /\ last.course_id \notin DOMAIN recommendation_index
    /\ last.course_id \notin DOMAIN quality_metrics
    /\ recommendation_index # <<>>
    /\ last.n = 2
    /\ Len(last.drawn) = 1
    /\ last.recs[2] = None
    /\ \E i \in DOMAIN recommendations : recommendations[i].course_id = last.course_id

(* the index before the sort: every edge list in insertion order *)
InsertionIndex ==
    InsertEdges(FilterPairCounts(pair_counts, threshold), quality_metrics, <<>>)

(* the edges of a list that have exactly the weight w, in list order *)
EdgesOfWeight(edges, w) == SelectSeq(edges, LAMBDA edge : edge[2] = w)

(* C15: in the built index every edge list is in descending order of weight, and the
   edges of equal weight are in the order in which they were inserted. *)
C15_SortedDescendingStable ==
    pc = "ready" =>
        \A inserted \in {InsertionIndex} :
            \A c \in DOMAIN recommendation_index :
                LET edges == recommendation_index[c]
                IN /\ \A i \in 1..(Len(edges) - 1) : FloatGE(edges[i][2], edges[i + 1][2])
                   /\ \A i \in DOMAIN edges :
                         EdgesOfWeight(edges, edges[i][2]) =
                            EdgesOfWeight(inserted[c], edges[i][2])

C15_Witness ==
    /\ pc = "ready"
    /\ \E inserted \in {InsertionIndex} :
          \E c \in DOMAIN recommendation_index : recommendation_index[c] # inserted[c]
    /\ \E c \in DOMAIN recommendation_index :
          \E i, j \in DOMAIN recommendation_index[c] :
              /\ i < j
              /\ recommendation_index[c][i][2] = recommendation_index[c][j][2]
              /\ recommendation_index[c][i][1] # recommendation_index[c][j][1]

(* score(c): the quality score divided by 100, or 0.5 without a quality record *)
ScoreOrHalf(qm, c) == IF c \in DOMAIN qm THEN FloatDivInt(qm[c], 100) ELSE FloatDivInt(1, 2)

(* n * (score(c1) + score(c2)) / 2, evaluated from left to right *)
PairWeight(qm, c1, c2, n) ==
    FloatHalf(FloatMulInt(FloatAdd(ScoreOrHalf(qm, c1), ScoreOrHalf(qm, c2)), n))

(* C16: for every surviving pair (c1, c2) with count n, the weight on its two edges is
   n * (score(c1) + score(c2)) / 2, and no edge carries any other weight. *)
C16_WeightFormula ==
    pc = "ready" =>
        \A kept \in {FilterPairCounts(pair_counts, threshold)} :
            /\ \A i \in DOMAIN kept :
                  \A w \in {PairWeight(quality_metrics, kept[i].pair[1], kept[i].pair[2],
                                       kept[i].count)} :
                      /\ Contains(recommendation_index[kept[i].pair[1]], <<kept[i].pair[2], w>>)
                      /\ Contains(recommendation_index[kept[i].pair[2]], <<kept[i].pair[1], w>>)
            /\ \A c \in DOMAIN recommendation_index :
                  \A k \in DOMAIN recommendation_index[c] :
                      \E i \in DOMAIN kept :
                          /\ {c, recommendation_index[c][k][1]} = Range(kept[i].pair)
                          /\ recommendation_index[c][k][2] =
                                PairWeight(quality_metrics, kept[i].pair[1], kept[i].pair[2],
                                           kept[i].count)

C16_Witness ==
    /\ pc = "ready"
    /\ \E i \in DOMAIN pair_counts :
          /\ pair_counts[i].count = 2
          /\ pair_counts[i].count > threshold
          /\ pair_counts[i].pair[1] \in DOMAIN quality_metrics
          /\ pair_counts[i].pair[2] \notin DOMAIN quality_metrics
          /\ quality_metrics[pair_counts[i].pair[1]] = 57

(* the rows of df in the order given by the permutation p of its positions *)
Permuted(df, p) == [i \in DOMAIN df |-> df[p[i]]]

(* C17: the pair counter depends only on which records are present: every permutation
   of the purchase records gives the same pair keys with the same counts. *)
C17_OrderIndependent ==
    pc = "analyzed" =>
        \A p \in Permutations(DOMAIN purchase_data) :
            Range(analyze_joint_purchases(Permuted(purchase_data, p))) = Range(pair_counts)

C17_Witness ==
    /\ pc = "analyzed"
    /\ Len(purchase_data) = 3
    /\ Len(pair_counts) >= 2
    /\ \E i, j \in DOMAIN purchase_data :
          /\ i < j
          /\ purchase_data[i].user_id = purchase_data[j].user_id
          /\ purchase_data[i].course_id > purchase_data[j].course_id

RECURSIVE SlotQualities(_, _)
(* the quality scores of the non-sentinel recommendation slots of the whole frame *)
SlotQualities(frame, qm) ==
    IF frame = <<>> THEN <<>>
    ELSE (IF Head(frame).recomm_one = None THEN <<>>
          ELSE <<QualityOrDefault(qm, Head(frame).recomm_one)>>)
         \o (IF Head(frame).recomm_two = None THEN <<>>
             ELSE <<QualityOrDefault(qm, Head(frame).recomm_two)>>)
         \o SlotQualities(Tail(frame), qm)

(* the float x is total / number up to rounding: |x - total / number| <= 2^-10 *)
NearRatio(x, total, number) ==
    IF x = NaN THEN FALSE
    ELSE IF x.m = <<>> THEN total = 0
    ELSE LET a   == MulSmall(x.m, number)
             b   == ShiftLeft(NatOfInt(total), -x.e)
             tol == ShiftLeft(NatOfInt(number), -x.e - 10)
         IN NatGE(Add(b, tol), a) /\ NatGE(Add(a, tol), b)

(* every recommended course of the frame has a quality record *)
AllRecorded(frame, qm) ==
    \A i \in DOMAIN frame :
        /\ frame[i].recomm_one # None => frame[i].recomm_one \in DOMAIN qm
        /\ frame[i].recomm_two # None => frame[i].recomm_two \in DOMAIN qm

(* C18: avg_quality is the mean of the quality scores over all non-sentinel slots of the
   batch, every filled slot weighing the same.  The code takes the mean of the two
   column means, so a slot of the column with fewer values weighs more; this shows
   already on frames whose recommended courses all have a quality record. *)
C18_AvgQualityPooledMean ==
    (pc = "reported" /\ AllRecorded(recommendations, quality_metrics)) =>
        \A slots \in {SlotQualities(recommendations, quality_metrics)} :
            slots # <<>> => NearRatio(statistics.avg_quality, SumSeq(slots), Len(slots))

(* how many times the edge occurs in the list *)
Occurrences(edges, edge) == Cardinality({i \in DOMAIN edges : edges[i] = edge})

(* the edge list of a course, empty for a course that is not a key *)
EdgesOf(index, c) == IF c \in DOMAIN index THEN index[c] ELSE <<>>

(* C19: the built index is symmetric, (b, w) being in the list of a as many times as
   (a, w) is in the list of b, and its keys are the courses of the pairs whose count
   exceeds the threshold. *)
C19_SymmetricIndex ==
    pc = "ready" =>
        /\ \A a \in DOMAIN recommendation_index :
              \A i \in DOMAIN recommendation_index[a] :
                  LET b == recommendation_index[a][i][1]
                      w == recommendation_index[a][i][2]
                  IN Occurrences(recommendation_index[a], <<b, w>>) =
                        Occurrences(EdgesOf(recommendation_index, b), <<a, w>>)
        /\ DOMAIN recommendation_index =
              UNION {Range(pair_counts[i].pair) :
                        i \in {j \in DOMAIN pair_counts : pair_counts[j].count > threshold}}

C19_Witness ==
    /\ pc = "ready"
    /\ threshold = 1
    /\ Cardinality(DOMAIN recommendation_index) = 2
    /\ \E i \in DOMAIN pair_counts : pair_counts[i].count <= threshold
    /\ \E a \in DOMAIN recommendation_index :
          \E i \in DOMAIN recommendation_index[a] : recommendation_index[a][i][1] # a

(* C20: no call after construction changes the recommendation index, the filtered pair
   counts, the quality table or the course set: get_recommendations builds a new list,
   and backfill and padding append to that list only. *)
C20_CallsLeaveRecommenderUnchanged ==
    [][Constructed =>
          UNCHANGED <<recommendation_index, self_pair_counts, quality_metrics, all_courses>>]_vars

C20_Witness ==
    /\ pc = "loop"
    /\ todo # <<>>
    /\ last # NoRun
    /\ last.course_id \in DOMAIN recommendation_index
    /\ last.drawn # <<>>
    /\ last.recs[Len(last.recs)] = None
    /\ Head(todo) \in DOMAIN recommendation_index

(* C21: no record of get_all_recommendations recommends a course to itself or holds the
   same course id in both slots.  A purchase log with a repeated (user, course) row
   gives the pair key (a, a) (see C1), hence an edge from a to a, twice. *)
C21_NoSelfNoDuplicate ==
    \A i \in DOMAIN recommendations :
        LET row == recommendations[i]
        IN /\ row.recomm_one # row.course_id
           /\ row.recomm_two # row.course_id
           /\ row.recomm_one # None => row.recomm_one # row.recomm_two

(* the record holds a course id in at least one recommendation slot *)
SomeSlotFilled(row) == row.recomm_one # None \/ row.recomm_two # None

(* C22: has_recommendations is true exactly for the records with a course id in some
   slot, and courses_with_recs counts exactly those records. *)
C22_HasRecommendationsIffFilled ==
    /\ \A i \in DOMAIN recommendations :
          recommendations[i].has_recommendations <=> SomeSlotFilled(recommendations[i])
    /\ pc = "reported" =>
          statistics.courses_with_recs =
             Cardinality({i \in DOMAIN recommendations : SomeSlotFilled(recommendations[i])})

C22_Witness ==
    /\ pc = "reported"
    /\ statistics.total_courses = 3
    /\ statistics.courses_with_recs = 2
    /\ \E i \in DOMAIN recommendations :
          /\ recommendations[i].recomm_one # None
          /\ recommendations[i].recomm_two = None
    /\ \E i \in DOMAIN recommendations : ~recommendations[i].has_recommendations

(* C23: load_purchase_data returns on every path; after a failed connection or a failed
   query it returns the empty table with the four columns; and no connection it opened
   is still open when it returns.  conn.close() is on the success path only, so after a
   failed query the connection stays open. *)
C23_LoaderReturnsAndCloses ==
    (pc = "loaded" /\ df_purchases # NoTable) =>
        /\ df_purchases.columns = PurchaseColumns
        /\ connection # "closed" => df_purchases = EmptyTable
        /\ connection # "open"

====
